---- MODULE Spec2Model ----
(***************************************************************************)
(* Structural analysis of a QR symbol: functional-area masks, the zig-zag  *)
(* placement order of the remaining modules, the data / ECC split, and the *)
(* four mask penalty rules with the choice of the best mask.               *)
(*                                                                         *)
(* A boolean matrix of the source (a list of rows of booleans) is kept as  *)
(* the set of its True cells <<r, c>> together with its side length.       *)
(***************************************************************************)
EXTENDS Integers, Sequences, FiniteSets, TLC

VARIABLES
    pc,             \* position of the running call
    version,        \* argument: QR version
    size,           \* argument: side length in modules
    func_mask,      \* build_function_mask: cells set to True in func_mask
    sep_mask,       \* build_function_mask: cells set to True in sep_mask
    centers,        \* build_function_mask: result of compute_alignment_centers
    coords,         \* _data_modules_coords: the list built so far
    upward,         \* _data_modules_coords: scan direction of the next pair
    col,            \* _data_modules_coords: column counter
    renderer,       \* which renderer runs: "png" or "svg"
    ecc,            \* renderer argument: error-correction level
    ecc_cw_total,   \* renderer: _total_ecc_codewords(version, ecc)
    data_bits,      \* renderer: data_cw * 8
    data_positions, \* renderer: set(coords[:data_bits])
    render_rows,    \* renderer: rows = list(matrix), as the set of dark cells
    zone,           \* renderer: the modules drawn in each zone colour
    metrics,        \* render_colored_png_from_matrix: the dict it returns
    matrix,         \* compute_mask_penalty argument: rows of 0 / 1 modules
    n1_score,       \* compute_mask_penalty: penalty_N1(rows)
    n2_score,       \* compute_mask_penalty: penalty_N2(rows)
    n3_score,       \* compute_mask_penalty: penalty_N3(rows)
    n4_score,       \* compute_mask_penalty: penalty_N4(rows)
    penalty_score,  \* the value compute_mask_penalty returns
    symbols,        \* what make_qr gave for each mask tried so far
    mask_pattern,   \* evaluate_all_masks: loop variable
    scores,         \* evaluate_all_masks: dict mask -> score
    best_mask,      \* evaluate_all_masks
    best_score,     \* evaluate_all_masks
    current_logo_image, \* app.py: the module-level _current_logo_image
    requests,       \* app.py: the request each client has in the server
    served,         \* app.py: how many requests the server has accepted
    exports         \* app.py: the responses of GET /export/svg so far

maskVars == <<version, size, func_mask, sep_mask, centers>>
placeVars == <<coords, upward, col>>
splitVars ==
    <<renderer, ecc, ecc_cw_total, data_bits, data_positions, render_rows,
      zone, metrics>>

penVars == <<matrix, n1_score, n2_score, n3_score, n4_score, penalty_score>>

evalVars == <<symbols, mask_pattern, scores, best_mask, best_score>>

appVars == <<current_logo_image, requests, served, exports>>

vars == <<pc, maskVars, placeVars, splitVars, penVars, evalVars, appVars>>

\* None, where the other values of the variable are numbers: no score,
\* version, size or column is negative.
None == -1

\* None, where the other values of the variable are strings.
NoneStr == "None"

\* The variables of the calls a specification does not make.
IdleMask ==
    /\ version = None /\ size = None /\ func_mask = {} /\ sep_mask = {}
    /\ centers = << >>

IdlePlace == coords = << >> /\ upward = TRUE /\ col = None

IdleSplit ==
    /\ renderer = NoneStr /\ ecc = NoneStr /\ ecc_cw_total = None
    /\ data_bits = None /\ data_positions = {}
    /\ render_rows = {} /\ zone = << >> /\ metrics = << >>

IdleScores ==
    /\ n1_score = None /\ n2_score = None /\ n3_score = None /\ n4_score = None
    /\ penalty_score = None

IdleEval ==
    /\ symbols = << >> /\ mask_pattern = None /\ scores = << >>
    /\ best_mask = None /\ best_score = None

IdleApp ==
    /\ current_logo_image = NoneStr /\ requests = << >> /\ served = None
    /\ exports = {}

\* Versions of the standard symbol: 1..40.
MaxVersion == 40

Versions == 1..MaxVersion

\* size = 21 + (version - 1) * 4
SizeOf(v) == 21 + (v - 1) * 4

\* The cells of a size x size matrix: 0 <= r < size and 0 <= c < size.
InGrid(n, r, c) == 0 <= r /\ r < n /\ 0 <= c /\ c < n

Cells(n) == (0..(n - 1)) \X (0..(n - 1))

\* range(a, b) of Python: a, a+1, ..., b-1.
Range(a, b) == a..(b - 1)

(***************************************************************************)
(* compute_alignment_centers                                               *)
(***************************************************************************)

\* int(round(p / q)) for p >= 0, q > 0: Python 3 rounds a tie to the even
\* neighbour.  The source rounds the float first + i * step; for the versions
\* modelled the exact quotient is never within a rounding error of a tie, so
\* the float and the exact quotient round alike.
RoundHalfEven(p, q) ==
    LET f == p \div q
        twice == 2 * (p % q)
    IN  IF twice < q THEN f
        ELSE IF twice > q THEN f + 1
        ELSE IF f % 2 = 0 THEN f ELSE f + 1

\* compute_alignment_centers with the slip `last = size - 6`.
compute_alignment_centers_LastOff(v) ==
    IF v = 1 THEN << >>
    ELSE LET sz == 21 + (v - 1) * 4
             num == (v \div 7) + 2
             first == 6
             last == sz - 6
         IN  IF num = 2 THEN <<first, last>>
             ELSE [k \in 1..num |->
                      RoundHalfEven(first * (num - 1) + (k - 1) * (last - first),
                                    num - 1)]

compute_alignment_centers(v) ==
    IF v = 1 THEN << >>
    ELSE LET sz == 21 + (v - 1) * 4
             num == (v \div 7) + 2
             first == 6
             last == sz - 7
         IN  IF num = 2 THEN <<first, last>>
             ELSE \* step = (last - first) / (num - 1); first + i * step
                  [k \in 1..num |->
                      RoundHalfEven(first * (num - 1) + (k - 1) * (last - first),
                                    num - 1)]

(***************************************************************************)
(* build_function_mask, pass by pass                                       *)
(***************************************************************************)

finder_positions(n) == <<<<0, 0>>, <<0, n - 7>>, <<n - 7, 0>>>>

\* The 7x7 block of every finder position.
FinderCells(n) ==
    UNION { { <<r, c>> : r \in Range(p[1], p[1] + 7), c \in Range(p[2], p[2] + 7) }
            \cap Cells(n) : p \in { finder_positions(n)[k] : k \in 1..3 } }

\* The 1-module border around every finder position, outside its 7x7 block.
SeparatorCells(n) ==
    UNION { { q \in ({ <<r, c>> : r \in Range(p[1] - 1, p[1] + 8),
                                  c \in Range(p[2] - 1, p[2] + 8) } \cap Cells(n)) :
                q[1] < p[1] \/ q[1] > p[1] + 6 \/ q[2] < p[2] \/ q[2] > p[2] + 6 }
            : p \in { finder_positions(n)[k] : k \in 1..3 } }

\* Row 6 and column 6.
TimingCells(n) ==
    { <<6, i>> : i \in Range(0, n) } \cup { <<i, 6>> : i \in Range(0, n) }

\* SkipsFinder without the test of the bottom-left corner.
SkipsFinder_TwoCorners(n, cy, cx) ==
    (cy <= 6 /\ cx <= 6) \/ (cy <= 6 /\ cx >= n - 7)

\* The test that skips a centre pair overlapping a finder.
SkipsFinder(n, cy, cx) ==
    (cy <= 6 /\ cx <= 6) \/ (cy <= 6 /\ cx >= n - 7) \/ (cy >= n - 7 /\ cx <= 6)

\* The 5x5 block of every centre pair that is not skipped.
AlignmentCells(n, cs) ==
    UNION { { <<r, c>> : r \in Range(cs[a] - 2, cs[a] + 3),
                         c \in Range(cs[b] - 2, cs[b] + 3) } \cap Cells(n)
            : <<a, b>> \in { ab \in (DOMAIN cs) \X (DOMAIN cs) :
                                 ~SkipsFinder(n, cs[ab[1]], cs[ab[2]]) } }

\* Format information: row 8 and column 8 next to the finders.
FormatCells(n) ==
    UNION { { <<8, i>>, <<i, 8>>, <<8, n - 1 - i>> } : i \in { j \in Range(0, 9) : j < n } }

\* VersionCells with the slip `version > 7`.
VersionCells_FromV8(n, v) ==
    IF v > 7
    THEN { <<r, c>> : r \in Range(0, 6), c \in Range(n - 11, n - 8) }
         \cup { <<r, c>> : r \in Range(n - 11, n - 8), c \in Range(0, 6) }
    ELSE {}

\* VersionCells with the blocks one module nearer to the finders.
VersionCells_Shifted(n, v) ==
    IF v >= 7
    THEN { <<r, c>> : r \in Range(0, 6), c \in Range(n - 10, n - 7) }
         \cup { <<r, c>> : r \in Range(n - 10, n - 7), c \in Range(0, 6) }
    ELSE {}

\* Version information: two 6x3 blocks, from version 7.
VersionCells(n, v) ==
    IF v >= 7
    THEN { <<r, c>> : r \in Range(0, 6), c \in Range(n - 11, n - 8) }
         \cup { <<r, c>> : r \in Range(n - 11, n - 8), c \in Range(0, 6) }
    ELSE {}

\* func_mask = [[False] * size ...]; sep_mask likewise: no cell is True yet.
InitMask ==
    /\ version \in Versions
    /\ size = SizeOf(version)
    /\ pc = "finder"
    /\ func_mask = {}
    /\ sep_mask = {}
    /\ centers = << >>
    /\ IdlePlace /\ IdleSplit
    /\ matrix = << >> /\ IdleScores /\ IdleEval /\ IdleApp

\* 1. Finder patterns and their separators.
MarkFinders ==
    /\ pc = "finder"
    /\ func_mask' = func_mask \cup FinderCells(size)
    /\ sep_mask' = sep_mask \cup SeparatorCells(size)
    /\ pc' = "timing"
    /\ UNCHANGED <<appVars, version, size, centers, placeVars, splitVars, penVars, evalVars>>

\* 2. Timing patterns.
MarkTiming ==
    /\ pc = "timing"
    /\ func_mask' = func_mask \cup TimingCells(size)
    /\ pc' = "alignment"
    /\ UNCHANGED <<appVars, version, size, sep_mask, centers, placeVars, splitVars, penVars, evalVars>>

\* 3. Alignment patterns.
MarkAlignment ==
    /\ pc = "alignment"
    /\ centers' = compute_alignment_centers(version)
    /\ func_mask' = func_mask \cup AlignmentCells(size, centers')
    /\ pc' = "format"
    /\ UNCHANGED <<appVars, version, size, sep_mask, placeVars, splitVars, penVars, evalVars>>

\* 4. Format information.
MarkFormat ==
    /\ pc = "format"
    /\ func_mask' = func_mask \cup FormatCells(size)
    /\ pc' = "version"
    /\ UNCHANGED <<appVars, version, size, sep_mask, centers, placeVars, splitVars, penVars, evalVars>>

\* 5. Version information, then return func_mask, sep_mask.
MarkVersion ==
    /\ pc = "version"
    /\ func_mask' = func_mask \cup VersionCells(size, version)
    /\ pc' = "built"
    /\ UNCHANGED <<appVars, version, size, sep_mask, centers, placeVars, splitVars, penVars, evalVars>>

NextMask == MarkFinders \/ MarkTiming \/ MarkAlignment \/ MarkFormat \/ MarkVersion

SpecMask == InitMask /\ [][NextMask]_vars

\* build_function_mask(size, version) is a public function whose body tests
\* neither argument: any pair of integers enters the passes.  The pairs drawn
\* here are the ones the body runs through without an IndexError.
CallVersions == {0, 1, 2, 7, 41}

CallSizes == { SizeOf(v) : v \in CallVersions }

InitCall ==
    /\ version \in CallVersions
    /\ size \in CallSizes
    /\ pc = "finder"
    /\ func_mask = {}
    /\ sep_mask = {}
    /\ centers = << >>
    /\ IdlePlace /\ IdleSplit
    /\ matrix = << >> /\ IdleScores /\ IdleEval /\ IdleApp

SpecCall == InitCall /\ [][NextMask]_vars

\* The masks build_function_mask(n, v) returns.
build_function_mask(n, v) ==
    [func |-> FinderCells(n) \cup TimingCells(n)
                \cup AlignmentCells(n, compute_alignment_centers(v))
                \cup FormatCells(n) \cup VersionCells(n, v),
     sep |-> SeparatorCells(n)]

(***************************************************************************)
(* _data_modules_coords                                                    *)
(***************************************************************************)

\* The call _data_modules_coords(size, func_mask) of a renderer, on the mask
\* build_function_mask(size, version) returned: coords = [], upward = True,
\* col = size - 1.
InitPlace ==
    /\ version \in Versions
    /\ size = SizeOf(version)
    /\ func_mask = build_function_mask(size, version).func
    /\ sep_mask = build_function_mask(size, version).sep
    /\ centers = compute_alignment_centers(version)
    /\ pc = "while"
    /\ coords = << >> /\ upward = TRUE /\ col = size - 1
    /\ IdleSplit
    /\ matrix = << >> /\ IdleScores /\ IdleEval /\ IdleApp

\* PairColumn without the step over the timing column.
PairColumn_NoSkip(cl) == cl

\* The column the pair starts at: the timing column is stepped over.
PairColumn(cl) == IF cl = 6 THEN cl - 1 ELSE cl

\* The cells one pass of the while body visits, in order: for i in
\* range(size), r = size - 1 - i if upward else i, then c in (col, col - 1).
PairVisit(n, up, cl) ==
    [k \in 1..(2 * n) |->
        LET i == (k - 1) \div 2
        IN  << IF up THEN n - 1 - i ELSE i,
               IF (k - 1) % 2 = 0 THEN cl ELSE cl - 1 >>]

\* PairAppended without the test of func_mask.
PairAppended_NoMaskTest(n, mask, up, cl) ==
    LET keep(p) == InGrid(n, p[1], p[2])
    IN  SelectSeq(PairVisit(n, up, cl), keep)

\* The visited cells that are appended: in the grid and not functional.
PairAppended(n, mask, up, cl) ==
    LET keep(p) == InGrid(n, p[1], p[2]) /\ p \notin mask
    IN  SelectSeq(PairVisit(n, up, cl), keep)

\* One pass of the body of `while col > 0`.
PlacePair ==
    /\ pc = "while"
    /\ col > 0
    /\ coords' = coords \o PairAppended(size, func_mask, upward, PairColumn(col))
    /\ upward' = ~upward
    /\ col' = PairColumn(col) - 2
    /\ pc' = "while"
    /\ UNCHANGED <<appVars, maskVars, splitVars, penVars, evalVars>>

\* The loop ends and coords is returned.
ReturnCoords ==
    /\ pc = "while"
    /\ ~(col > 0)
    /\ pc' = "placed"
    /\ UNCHANGED <<appVars, maskVars, placeVars, splitVars, penVars, evalVars>>

(***************************************************************************)
(* _total_ecc_codewords and the data / ECC split of the renderers          *)
(***************************************************************************)

\* (g1_blocks, ecc_per_block_g1, g2_blocks, ecc_per_block_g2) by level, then
\* by version 1..40.
ECC_TABLE ==
  [
    L |-> <<
        <<1, 7, 0, 0>>, <<1, 10, 1, 10>>, <<1, 15, 1, 15>>, <<1, 20, 1, 20>>, <<1, 26, 1, 26>>,
        <<2, 18, 2, 18>>, <<2, 20, 2, 20>>, <<2, 24, 2, 24>>, <<2, 30, 2, 30>>, <<2, 18, 4, 18>>,
        <<4, 20, 2, 20>>, <<4, 24, 2, 24>>, <<4, 26, 2, 26>>, <<4, 30, 2, 30>>, <<6, 22, 2, 22>>,
        <<6, 24, 2, 24>>, <<6, 28, 2, 28>>, <<6, 30, 2, 30>>, <<6, 28, 4, 28>>, <<6, 28, 4, 28>>,
        <<6, 28, 4, 28>>, <<6, 28, 4, 28>>, <<6, 28, 4, 28>>, <<6, 28, 4, 28>>, <<6, 28, 4, 28>>,
        <<6, 28, 4, 28>>, <<6, 28, 4, 28>>, <<6, 28, 4, 28>>, <<6, 28, 4, 28>>, <<6, 28, 4, 28>>,
        <<6, 28, 4, 28>>, <<6, 28, 4, 28>>, <<6, 28, 4, 28>>, <<6, 28, 4, 28>>, <<6, 28, 4, 28>>,
        <<6, 28, 4, 28>>, <<6, 28, 4, 28>>, <<6, 28, 4, 28>>, <<6, 28, 4, 28>>, <<6, 28, 4, 28>> >>,
    M |-> <<
        <<1, 10, 0, 0>>, <<1, 16, 1, 16>>, <<1, 26, 1, 26>>, <<2, 18, 2, 18>>, <<2, 24, 2, 24>>,
        <<4, 16, 4, 16>>, <<2, 18, 4, 18>>, <<4, 22, 2, 22>>, <<4, 20, 4, 20>>, <<2, 24, 6, 24>>,
        <<4, 28, 2, 28>>, <<4, 26, 4, 26>>, <<4, 24, 4, 24>>, <<4, 20, 4, 20>>, <<6, 24, 2, 24>>,
        <<6, 28, 2, 28>>, <<6, 24, 4, 24>>, <<6, 28, 4, 28>>, <<6, 26, 4, 26>>, <<6, 30, 4, 30>>,
        <<6, 28, 4, 28>>, <<6, 30, 4, 30>>, <<6, 30, 4, 30>>, <<6, 30, 4, 30>>, <<6, 30, 4, 30>>,
        <<6, 30, 4, 30>>, <<6, 30, 4, 30>>, <<6, 30, 4, 30>>, <<6, 30, 4, 30>>, <<6, 30, 4, 30>>,
        <<6, 30, 4, 30>>, <<6, 30, 4, 30>>, <<6, 30, 4, 30>>, <<6, 30, 4, 30>>, <<6, 30, 4, 30>>,
        <<6, 30, 4, 30>>, <<6, 30, 4, 30>>, <<6, 30, 4, 30>>, <<6, 30, 4, 30>>, <<6, 30, 4, 30>> >>,
    Q |-> <<
        <<1, 13, 0, 0>>, <<1, 22, 1, 22>>, <<2, 18, 2, 18>>, <<2, 26, 2, 26>>, <<2, 18, 2, 18>>,
        <<4, 24, 4, 24>>, <<4, 18, 2, 18>>, <<4, 22, 2, 22>>, <<4, 20, 2, 20>>, <<4, 24, 2, 24>>,
        <<4, 28, 2, 28>>, <<4, 26, 2, 26>>, <<4, 24, 2, 24>>, <<4, 20, 2, 20>>, <<6, 24, 2, 24>>,
        <<6, 28, 2, 28>>, <<6, 24, 2, 24>>, <<6, 28, 2, 28>>, <<6, 26, 2, 26>>, <<6, 30, 2, 30>>,
        <<6, 28, 2, 28>>, <<6, 30, 2, 30>>, <<6, 30, 2, 30>>, <<6, 30, 2, 30>>, <<6, 30, 2, 30>>,
        <<6, 30, 2, 30>>, <<6, 30, 2, 30>>, <<6, 30, 2, 30>>, <<6, 30, 2, 30>>, <<6, 30, 2, 30>>,
        <<6, 30, 2, 30>>, <<6, 30, 2, 30>>, <<6, 30, 2, 30>>, <<6, 30, 2, 30>>, <<6, 30, 2, 30>>,
        <<6, 30, 2, 30>>, <<6, 30, 2, 30>>, <<6, 30, 2, 30>>, <<6, 30, 2, 30>>, <<6, 30, 2, 30>> >>,
    H |-> <<
        <<1, 17, 0, 0>>, <<1, 28, 1, 28>>, <<2, 22, 2, 22>>, <<4, 16, 4, 16>>, <<4, 18, 4, 18>>,
        <<4, 24, 4, 24>>, <<4, 18, 4, 18>>, <<4, 22, 4, 22>>, <<4, 20, 4, 20>>, <<4, 24, 4, 24>>,
        <<4, 28, 4, 28>>, <<4, 26, 4, 26>>, <<4, 24, 4, 24>>, <<4, 20, 4, 20>>, <<6, 24, 4, 24>>,
        <<6, 28, 4, 28>>, <<6, 24, 4, 24>>, <<6, 28, 4, 28>>, <<6, 26, 4, 26>>, <<6, 30, 4, 30>>,
        <<6, 28, 4, 28>>, <<6, 30, 4, 30>>, <<6, 30, 4, 30>>, <<6, 30, 4, 30>>, <<6, 30, 4, 30>>,
        <<6, 30, 4, 30>>, <<6, 30, 4, 30>>, <<6, 30, 4, 30>>, <<6, 30, 4, 30>>, <<6, 30, 4, 30>>,
        <<6, 30, 4, 30>>, <<6, 30, 4, 30>>, <<6, 30, 4, 30>>, <<6, 30, 4, 30>>, <<6, 30, 4, 30>>,
        <<6, 30, 4, 30>>, <<6, 30, 4, 30>>, <<6, 30, 4, 30>>, <<6, 30, 4, 30>>, <<6, 30, 4, 30>> >>
  ]

EccLevels == {"L", "M", "Q", "H"}

\* The ecc argument of a renderer is any string: the four levels, and "X"
\* for a string that is no level, which has no key in _ECC_TABLE.
EccInputs == EccLevels \cup {"X"}

\* The matrix argument of a renderer, of the size of the version: every
\* module dark, and a chequered grid.
RenderInputs(n) == { Cells(n), { p \in Cells(n) : (p[1] + p[2]) % 2 = 0 } }

\* key in _ECC_TABLE
InEccTable(v, level) == level \in DOMAIN ECC_TABLE /\ v \in DOMAIN ECC_TABLE[level]

total_ecc_codewords(v, level) ==
    IF InEccTable(v, level)
    THEN LET e == ECC_TABLE[level][v]
         IN  e[1] * e[2] + e[3] * e[4]
    ELSE 0

Max(a, b) == IF a >= b THEN a ELSE b

Min(a, b) == IF a <= b THEN a ELSE b

\* PrefixSet with the slip coords[:k + 1].
PrefixSet_OneMore(seq, k) == { seq[i] : i \in 1..Min(k + 1, Len(seq)) }

\* coords[:k] for k >= 0, as a set.
PrefixSet(seq, k) == { seq[i] : i \in 1..Min(k, Len(seq)) }

\* data_cw * 8, from functional_count, data_modules_est and total_cw_est.
DataBits(n, mask, eccTotal) ==
    LET total_modules == n * n
        functional_count == Cardinality(mask)
        data_modules_est == total_modules - functional_count
        total_cw_est == data_modules_est \div 8
        data_cw == Max(0, total_cw_est - eccTotal)
    IN  data_cw * 8

\* The split of both renderers, up to data_positions = set(coords[:data_bits]).
\* The size of the matrix is that of the version; its cells are read by the
\* module loop only.
Split(which) ==
    /\ pc = "placed"
    /\ \E level \in EccInputs :
          /\ ecc' = level
          /\ ecc_cw_total' = total_ecc_codewords(version, level)
          /\ data_bits' = DataBits(size, func_mask, ecc_cw_total')
          /\ data_positions' = PrefixSet(coords, data_bits')
    /\ renderer' = which
    /\ pc' = "split"
    /\ UNCHANGED <<appVars, render_rows, zone, metrics, maskVars, placeVars, penVars, evalVars>>

\* render_colored_png_from_matrix up to the split.
PngSplit == Split("png")

\* render_colored_svg_from_matrix up to the split.
SvgSplit == Split("svg")

(***************************************************************************)
(* The module loop of the renderers: the zone colour of every drawn module *)
(***************************************************************************)

\* r0 <= r < r0 + 7 and c0 <= c < c0 + 7 for one of the finder positions.
in_finder(n, r, c) ==
    \E k \in 1..3 :
        LET p == finder_positions(n)[k]
        IN  p[1] <= r /\ r < p[1] + 7 /\ p[2] <= c /\ c < p[2] + 7

\* The loop over cy, cx in alignment_centers: every pair of centres is
\* tested, none is skipped.
aligned(cs, r, c) ==
    /\ \E a \in DOMAIN cs : cs[a] - 2 <= r /\ r <= cs[a] + 2
    /\ \E b \in DOMAIN cs : cs[b] - 2 <= c /\ c <= cs[b] + 2

\* (r == 8 or c == 8) or (r < 9 and c < 9) or (c >= size - 8 and r < 9)
format_test(n, r, c) ==
    (r = 8 \/ c = 8) \/ (r < 9 /\ c < 9) \/ (c >= n - 8 /\ r < 9)

\* version >= 7 and ((r < 6 and c >= size - 11) or (r >= size - 11 and c < 6))
version_test(n, v, r, c) ==
    v >= 7 /\ ((r < 6 /\ c >= n - 11) \/ (r >= n - 11 /\ c < 6))

\* DataOrEcc without the fallback on ecc_cw_total.
DataOrEcc_NoFallback(p) == IF p \in data_positions THEN "data" ELSE "ecc"

\* The colour of a dark non-functional module: data if it is in
\* data_positions, else ecc if ecc_cw_total > 0, else data.
DataOrEcc(p) ==
    IF p \in data_positions THEN "data"
    ELSE IF ecc_cw_total > 0 THEN "ecc" ELSE "data"

\* The zone of a functional dark module, or "none" when no test matches it.
FunctionalFill(cs, p) ==
    IF in_finder(size, p[1], p[2]) THEN "finder"
    ELSE IF aligned(cs, p[1], p[2]) THEN "alignment"
    ELSE IF p[1] = 6 \/ p[2] = 6 THEN "timing"
    ELSE IF format_test(size, p[1], p[2]) THEN "format"
    ELSE IF version_test(size, version, p[1], p[2]) THEN "version"
    ELSE "none"

\* PngFill without the version-information colour: those modules fall
\* through to the data / ECC colouring.
PngFill_VersionFallsThrough(cs, p) ==
    IF p \in func_mask
    THEN LET fill == FunctionalFill(cs, p)
         IN  IF fill \notin {"none", "version"} THEN fill ELSE DataOrEcc(p)
    ELSE DataOrEcc(p)

\* PNG: a functional module no test matches falls through to the data / ECC
\* colouring.
PngFill(cs, p) ==
    IF p \in func_mask
    THEN LET fill == FunctionalFill(cs, p)
         IN  IF fill # "none" THEN fill ELSE DataOrEcc(p)
    ELSE DataOrEcc(p)

\* SVG: a functional module no test matches is coloured data.
SvgFill(cs, p) ==
    IF p \in func_mask
    THEN LET fill == FunctionalFill(cs, p)
         IN  IF fill # "none" THEN fill ELSE "data"
    ELSE DataOrEcc(p)

\* The modules the PNG loop draws, by the colour they get: a light separator
\* module is drawn as separator, any other light module is not drawn, and a
\* dark module gets PngFill; only a functional module can get a functional
\* colour.
PngZones(cs, dark) ==
    LET functional == dark \cap func_mask
    IN  [separator |-> sep_mask \ dark,
         finder |-> { p \in functional : PngFill(cs, p) = "finder" },
         alignment |-> { p \in functional : PngFill(cs, p) = "alignment" },
         timing |-> { p \in functional : PngFill(cs, p) = "timing" },
         format |-> { p \in functional : PngFill(cs, p) = "format" },
         version |-> { p \in functional : PngFill(cs, p) = "version" },
         data |-> { p \in dark : PngFill(cs, p) = "data" },
         ecc |-> { p \in dark : PngFill(cs, p) = "ecc" }]

\* The modules the two SVG loops draw, by the colour they get.
SvgZones(cs, dark) ==
    LET functional == dark \cap func_mask
    IN  [separator |-> sep_mask \ dark,
         finder |-> { p \in functional : SvgFill(cs, p) = "finder" },
         alignment |-> { p \in functional : SvgFill(cs, p) = "alignment" },
         timing |-> { p \in functional : SvgFill(cs, p) = "timing" },
         format |-> { p \in functional : SvgFill(cs, p) = "format" },
         version |-> { p \in functional : SvgFill(cs, p) = "version" },
         data |-> { p \in dark : SvgFill(cs, p) = "data" },
         ecc |-> { p \in dark : SvgFill(cs, p) = "ecc" }]

\* border: int = 4
DefaultBorder == 4

\* The dict render_colored_png_from_matrix returns with the image; eccTotal
\* is the ecc_cw_total of the call, which no entry of the dict reads.
PngMetrics(n, mask, dark, eccTotal) ==
    [size |-> n,
     modules |-> n * n,
     dark_modules |-> Cardinality(dark),
     functional_modules |-> Cardinality(mask),
     data_modules_est |-> n * n - Cardinality(mask),
     border |-> DefaultBorder]

\* The loop over the modules of render_colored_png_from_matrix and its
\* return value.
PngPaint ==
    /\ pc = "split"
    /\ renderer = "png"
    /\ render_rows' \in RenderInputs(size)
    /\ zone' = PngZones(compute_alignment_centers(version), render_rows')
    /\ metrics' = PngMetrics(size, func_mask, render_rows', ecc_cw_total)
    /\ pc' = "painted"
    /\ UNCHANGED <<appVars, renderer, ecc, ecc_cw_total, data_bits, data_positions,
                   maskVars, placeVars, penVars, evalVars>>

\* The two loops of render_colored_svg_from_matrix; it returns the document
\* only.
SvgPaint ==
    /\ pc = "split"
    /\ renderer = "svg"
    /\ render_rows' \in RenderInputs(size)
    /\ zone' = SvgZones(compute_alignment_centers(version), render_rows')
    /\ pc' = "painted"
    /\ UNCHANGED <<appVars, renderer, ecc, ecc_cw_total, data_bits, data_positions,
                   metrics, maskVars, placeVars, penVars, evalVars>>

NextPlace == PlacePair \/ ReturnCoords \/ PngSplit \/ SvgSplit

SpecPlace == InitPlace /\ [][NextPlace]_vars

RECURSIVE PlaceFrom(_, _, _, _)
\* The list the while loop appends from the column counter cl on.
PlaceFrom(n, mask, up, cl) ==
    IF cl > 0
    THEN LET pair == PairColumn(cl)
         IN  PairAppended(n, mask, up, pair) \o PlaceFrom(n, mask, ~up, pair - 2)
    ELSE << >>

\* The list _data_modules_coords(size, func_mask) returns.
data_modules_coords(n, mask) == PlaceFrom(n, mask, TRUE, n - 1)

\* A renderer is called on a matrix of the size of the version, and has
\* called build_function_mask(size, version).
InitRender ==
    /\ version \in Versions
    /\ size = SizeOf(version)
    /\ func_mask = build_function_mask(size, version).func
    /\ sep_mask = build_function_mask(size, version).sep
    /\ centers = compute_alignment_centers(version)
    /\ pc = "render"
    /\ IdlePlace /\ IdleSplit
    /\ matrix = << >> /\ IdleScores /\ IdleEval /\ IdleApp

\* coords = _data_modules_coords(size, func_mask)
CallCoords ==
    /\ pc = "render"
    /\ coords' = data_modules_coords(size, func_mask)
    /\ pc' = "placed"
    /\ UNCHANGED <<appVars, upward, col, maskVars, splitVars, penVars, evalVars>>

NextRender == CallCoords \/ PngSplit \/ SvgSplit \/ PngPaint \/ SvgPaint

SpecRender == InitRender /\ [][NextRender]_vars

(***************************************************************************)
(* penalties: penalty_N1 .. penalty_N4, compute_mask_penalty               *)
(*                                                                         *)
(* rows is a sequence of rows, each a sequence of booleans; rows[r][c] of  *)
(* the source (0-based) is rows[r + 1][c + 1] here.  Every rule takes      *)
(* n = len(rows) and reads rows[r][c] for r, c in range(n).                *)
(***************************************************************************)

\* rows = [[bool(v) for v in row] for row in matrix_bool]
BoolRows(m) == [r \in 1..Len(m) |-> [c \in 1..Len(m[r]) |-> m[r][c] # 0]]

\* The cells rows[r][0..n-1] and rows[0..n-1][c] a rule scans, as one line.
RowLine(rows, r) == [c \in 1..Len(rows) |-> rows[r][c]]

ColLine(rows, c) == [r \in 1..Len(rows) |-> rows[r][c]]

RECURSIVE SumSeq(_, _)
\* s[1] + ... + s[k]
SumSeq(s, k) == IF k = 0 THEN 0 ELSE s[k] + SumSeq(s, k - 1)

\* AddRun with the slip `run > 5`.
AddRun_Over5(score, run) == IF run > 5 THEN score + 3 + (run - 5) ELSE score

\* if run >= 5: score += 3 + (run - 5)
AddRun(score, run) == IF run >= 5 THEN score + 3 + (run - 5) ELSE score

RECURSIVE N1Scan(_, _, _, _)
\* The inner loop of penalty_N1 over one line from index k (1-based) on, with
\* the run counter and the score so far, and the check of the final run.
N1Scan(line, k, run, score) ==
    IF k > Len(line) THEN AddRun(score, run)
    ELSE IF line[k] = line[k - 1]
         THEN N1Scan(line, k + 1, run + 1, score)
         ELSE N1Scan(line, k + 1, 1, AddRun(score, run))

penalty_N1(rows) ==
    LET n == Len(rows)
    IN  SumSeq([r \in 1..n |-> N1Scan(RowLine(rows, r), 2, 1, 0)], n)
        + SumSeq([c \in 1..n |-> N1Scan(ColLine(rows, c), 2, 1, 0)], n)

\* N2Block without the test of the diagonal cell rows[r+1][c+1].
N2Block_ThreeCells(rows, r, c) ==
    LET value == rows[r + 1][c + 1]
    IN  /\ rows[r + 1][c + 2] = value
        /\ rows[r + 2][c + 1] = value

\* The test of one 2x2 block with top-left cell rows[r][c] (r, c 0-based).
N2Block(rows, r, c) ==
    LET value == rows[r + 1][c + 1]
    IN  /\ rows[r + 1][c + 2] = value
        /\ rows[r + 2][c + 1] = value
        /\ rows[r + 2][c + 2] = value

penalty_N2(rows) ==
    LET n == Len(rows)
    IN  3 * Cardinality({ rc \in Range(0, n - 1) \X Range(0, n - 1) :
                              N2Block(rows, rc[1], rc[2]) })

\* seq[a:b] of Python for 0 <= a <= b <= len(seq).
Slice(seq, a, b) == SubSeq(seq, a + 1, b)

\* PatternAt with the slip `i + 7 < n - 4` on the right side.
PatternAt_StrictRight(seq, i) ==
    LET n == Len(seq)
        pattern == <<1, 0, 1, 1, 1, 0, 1>>
        left_ok == i >= 4 /\ \A k \in 1..4 : Slice(seq, i - 4, i)[k] = 0
        right_ok == i + 7 < n - 4 /\ \A k \in 1..4 : Slice(seq, i + 7, i + 11)[k] = 0
    IN  Slice(seq, i, i + 7) = pattern /\ (left_ok \/ right_ok)

\* The test of one start index i (0-based) in _pattern_1_1_3_1_1.
PatternAt(seq, i) ==
    LET n == Len(seq)
        pattern == <<1, 0, 1, 1, 1, 0, 1>>
        left_ok == i >= 4 /\ \A k \in 1..4 : Slice(seq, i - 4, i)[k] = 0
        right_ok == i + 7 <= n - 4 /\ \A k \in 1..4 : Slice(seq, i + 7, i + 11)[k] = 0
    IN  Slice(seq, i, i + 7) = pattern /\ (left_ok \/ right_ok)

\* The list of start indices found, in increasing order.
pattern_1_1_3_1_1(seq) ==
    LET n == Len(seq)
        starts == [k \in 1..(IF n - 7 + 1 > 0 THEN n - 7 + 1 ELSE 0) |-> k - 1]
        found(i) == PatternAt(seq, i)
    IN  SelectSeq(starts, found)

\* [1 if rows[r][c] else 0 ...]
Bits(line) == [k \in 1..Len(line) |-> IF line[k] THEN 1 ELSE 0]

penalty_N3(rows) ==
    LET n == Len(rows)
    IN  SumSeq([r \in 1..n |-> 40 * Len(pattern_1_1_3_1_1(Bits(RowLine(rows, r))))], n)
        + SumSeq([c \in 1..n |-> 40 * Len(pattern_1_1_3_1_1(Bits(ColLine(rows, c))))], n)

\* penalty_N4 with the ratio truncated to an integer before the subtraction.
penalty_N4_TruncRatio(rows) ==
    LET n == Len(rows)
        total == n * n
        dark == Cardinality({ rc \in (1..n) \X (1..n) : rows[rc[1]][rc[2]] })
        dev == ((100 * dark) \div total) - 50
        k == (IF dev >= 0 THEN dev ELSE -dev) \div 5
    IN  k * 10

\* ratio = dark * 100.0 / total; k = int(abs(ratio - 50.0) // 5.0).  The
\* source divides floats; dark * 100.0 and total are exact, the quotient is
\* correctly rounded, and abs(ratio - 50) / 5 is a multiple of 1 / (5 * total),
\* so the float floor equals the exact floor for every grid a symbol can have.
penalty_N4(rows) ==
    LET n == Len(rows)
        total == n * n
        dark == Cardinality({ rc \in (1..n) \X (1..n) : rows[rc[1]][rc[2]] })
        dev == 100 * dark - 50 * total   \* (ratio - 50.0) * total
        k == (IF dev >= 0 THEN dev ELSE -dev) \div (5 * total)
    IN  k * 10

\* A uniform n x n matrix of value v.
UniformGrid(n, v) == [r \in 1..n |-> [c \in 1..n |-> v]]

\* An n x n matrix of value base but for one line (row idx, or column idx when
\* transposed), which is dark exactly at the positions of D.
LineGrid(n, base, D, idx, transposed) ==
    [r \in 1..n |-> [c \in 1..n |->
        IF (IF transposed THEN c ELSE r) = idx
        THEN (IF (IF transposed THEN r ELSE c) \in D THEN 1 ELSE 0)
        ELSE base]]

\* Side of the grids whose one line takes every pattern.
LineLen == 11

\* Side of the grids that take every value in every cell.
SmallSide == 3

\* The dark positions (1-based) of 1,0,1,1,1,0,1 written at offset a (0-based).
StampAt(a) == { a + 1, a + 3, a + 4, a + 5, a + 7 }

\* The matrices scored: every pattern in the first row, and in the middle
\* column, of a light LineLen x LineLen grid; every SmallSide x SmallSide grid;
\* the light version-1 grid with the pattern 1,0,1,1,1,0,1 written once or
\* twice into a row or a column; the uniform version-1 grids.
PenaltyInputs ==
    { LineGrid(LineLen, 0, D, 1, FALSE) : D \in SUBSET (1..LineLen) }
    \cup { LineGrid(LineLen, 0, D, (LineLen + 1) \div 2, TRUE) : D \in SUBSET (1..LineLen) }
    \cup [1..SmallSide -> [1..SmallSide -> {0, 1}]]
    \cup { LineGrid(SizeOf(1), 0, StampAt(a) \cup StampAt(b), 9, t) :
               a \in 0..(SizeOf(1) - 7), b \in 0..(SizeOf(1) - 7), t \in BOOLEAN }
    \cup { UniformGrid(SizeOf(1), 0), UniformGrid(SizeOf(1), 1) }

InitPenalty ==
    /\ matrix \in PenaltyInputs
    /\ pc = "penalty"
    /\ IdleScores /\ IdleMask /\ IdlePlace /\ IdleSplit /\ IdleEval /\ IdleApp

\* compute_mask_penalty(matrix)
ComputeMaskPenalty ==
    /\ pc = "penalty"
    /\ LET rows == BoolRows(matrix)
       IN  /\ n1_score' = penalty_N1(rows)
           /\ n2_score' = penalty_N2(rows)
           /\ n3_score' = penalty_N3(rows)
           /\ n4_score' = penalty_N4(rows)
    /\ penalty_score' = n1_score' + n2_score' + n3_score' + n4_score'
    /\ pc' = "scored"
    /\ UNCHANGED <<appVars, matrix, maskVars, placeVars, splitVars, evalVars>>

NextPenalty == ComputeMaskPenalty

SpecPenalty == InitPenalty /\ [][NextPenalty]_vars

\* compute_mask_penalty takes any list of rows.  The grids of the docstring
\* examples have one row of several cells; these are the grids of one or two
\* rows of WideCols cells.
WideCols == 6

WideInputs == UNION { [1..R -> [1..WideCols -> {0, 1}]] : R \in 1..2 }

InitWide ==
    /\ matrix \in WideInputs
    /\ pc = "penalty"
    /\ IdleScores /\ IdleMask /\ IdlePlace /\ IdleSplit /\ IdleEval /\ IdleApp

SpecWide == InitWide /\ [][NextPenalty]_vars

(***************************************************************************)
(* evaluate_all_masks                                                      *)
(***************************************************************************)

\* The value compute_mask_penalty returns for a matrix.
compute_mask_penalty(m) ==
    LET rows == BoolRows(m)
    IN  penalty_N1(rows) + penalty_N2(rows) + penalty_N3(rows) + penalty_N4(rows)

\* for mask_pattern in range(8)
NumMasks == 8

\* The score stored for a mask whose try block raised.
FailScore == 999999

\* What the try block got from make_qr: the symbol's matrix, or an exception.
Symbol(m) == [ok |-> TRUE, matrix |-> m]

Raise == [ok |-> FALSE, matrix |-> << >>]

\* The matrices make_qr may give for a mask.
CandidateGrids ==
    { UniformGrid(LineLen, 0),
      LineGrid(LineLen, 0, StampAt(4), 1, FALSE) }

InitEval ==
    /\ pc = "masks"
    /\ symbols = << >>
    /\ mask_pattern = 0
    /\ scores = << >>
    /\ best_mask = None
    /\ best_score = None
    /\ matrix = << >>
    /\ IdleScores /\ IdleMask /\ IdlePlace /\ IdleSplit /\ IdleApp

\* d[k] = v on a dict kept as a function.
DictSet(d, k, v) == [x \in (DOMAIN d) \cup {k} |-> IF x = k THEN v ELSE d[x]]

\* TrackBest with the slip `penalty_score <= best_score`.
TrackBest_LastWins(bm, bs, m, sc) ==
    IF bs = None \/ sc <= bs THEN <<m, sc>> ELSE <<bm, bs>>

\* if best_score is None or penalty_score < best_score: the new
\* <<best_mask, best_score>>.
TrackBest(bm, bs, m, sc) ==
    IF bs = None \/ sc < bs THEN <<m, sc>> ELSE <<bm, bs>>

\* One pass of the loop body whose try block completes.
ScoreMask ==
    /\ pc = "masks"
    /\ mask_pattern < NumMasks
    /\ \E m \in CandidateGrids :
          /\ matrix' = m
          /\ symbols' = DictSet(symbols, mask_pattern, Symbol(m))
          /\ penalty_score' = compute_mask_penalty(m)
    /\ scores' = DictSet(scores, mask_pattern, penalty_score')
    /\ best_mask' = TrackBest(best_mask, best_score, mask_pattern, penalty_score')[1]
    /\ best_score' = TrackBest(best_mask, best_score, mask_pattern, penalty_score')[2]
    /\ mask_pattern' = mask_pattern + 1
    /\ UNCHANGED <<appVars, pc, n1_score, n2_score, n3_score, n4_score,
                   maskVars, placeVars, splitVars>>

\* FailMask with the sentinel also entering the best-score tracking.
FailMask_TracksBest ==
    /\ pc = "masks"
    /\ mask_pattern < NumMasks
    /\ symbols' = DictSet(symbols, mask_pattern, Raise)
    /\ scores' = DictSet(scores, mask_pattern, FailScore)
    /\ best_mask' = TrackBest(best_mask, best_score, mask_pattern, FailScore)[1]
    /\ best_score' = TrackBest(best_mask, best_score, mask_pattern, FailScore)[2]
    /\ mask_pattern' = mask_pattern + 1
    /\ UNCHANGED <<appVars, pc, penVars, maskVars, placeVars, splitVars>>

\* One pass of the loop body whose try block raises: except Exception.
FailMask ==
    /\ pc = "masks"
    /\ mask_pattern < NumMasks
    /\ symbols' = DictSet(symbols, mask_pattern, Raise)
    /\ scores' = DictSet(scores, mask_pattern, FailScore)
    /\ mask_pattern' = mask_pattern + 1
    /\ UNCHANGED <<appVars, pc, best_mask, best_score, penVars, maskVars, placeVars, splitVars>>

\* return best_mask, best_score, scores
ReturnBest ==
    /\ pc = "masks"
    /\ mask_pattern = NumMasks
    /\ pc' = "returned"
    /\ UNCHANGED <<appVars, evalVars, penVars, maskVars, placeVars, splitVars>>

NextEval == ScoreMask \/ FailMask \/ ReturnBest

SpecEval == InitEval /\ [][NextEval]_vars

(***************************************************************************)
(* C1                                                                      *)
(***************************************************************************)

InFinderBlock(n, r, c) ==
    (r <= 6 /\ c <= 6) \/ (r <= 6 /\ c >= n - 7) \/ (r >= n - 7 /\ c <= 6)

InAlignmentBlock(n, cs, r, c) ==
    \E a \in DOMAIN cs :
        /\ cs[a] - 2 <= r /\ r <= cs[a] + 2
        /\ \E b \in DOMAIN cs :
              /\ cs[b] - 2 <= c /\ c <= cs[b] + 2
              /\ ~( (cs[a] <= 6 /\ cs[b] <= 6) \/ (cs[a] <= 6 /\ cs[b] >= n - 7)
                    \/ (cs[a] >= n - 7 /\ cs[b] <= 6) )

InFormatCells(n, r, c) ==
    (r = 8 /\ c <= 8) \/ (c = 8 /\ r <= 8) \/ (r = 8 /\ c >= n - 9)

InVersionBlocks(n, v, r, c) ==
    /\ v >= 7
    /\ \/ (r <= 5 /\ n - 11 <= c /\ c <= n - 9)
       \/ (n - 11 <= r /\ r <= n - 9 /\ c <= 5)

C1Region(n, v, cs, r, c) ==
    \/ InFinderBlock(n, r, c)
    \/ r = 6 \/ c = 6
    \/ InAlignmentBlock(n, cs, r, c)
    \/ InFormatCells(n, r, c)
    \/ InVersionBlocks(n, v, r, c)

\* C1: when build_function_mask(size, version) returns, a cell is functional
\* if and only if it lies in a finder block, in row 6 or column 6, in the 5x5
\* block of a centre pair the finder-corner test does not skip, in the format
\* cells of row 8 / column 8, or (version >= 7 only) in a version-info block;
\* every functional cell is a cell of the size x size grid; and the two masks
\* are the value of a function of (size, version) alone, so two calls with the
\* same arguments give identical masks.
C1_FunctionalIffRegion ==
    pc = "built" =>
        /\ func_mask \subseteq Cells(size)
        /\ func_mask = build_function_mask(size, version).func
        /\ sep_mask = build_function_mask(size, version).sep
        /\ centers = compute_alignment_centers(version)
        /\ \A r \in 0..(size - 1) : \A c \in 0..(size - 1) :
              (<<r, c>> \in func_mask) <=> C1Region(size, version, centers, r, c)

\* A version >= 7 with three or more centres has been built: finder, timing,
\* alignment (with skipped corner pairs), format and version cells all occur.
C1_Witness ==
    /\ pc = "built"
    /\ version >= 7
    /\ Len(centers) >= 3
    /\ <<centers[2], centers[2]>> \in func_mask
    /\ <<0, size - 11>> \in func_mask
    /\ <<8, size - 9>> \in func_mask

(***************************************************************************)
(* C2                                                                      *)
(***************************************************************************)

CoordSet == { coords[i] : i \in 1..Len(coords) }

\* C2: the list _data_modules_coords returns for the functional mask of
\* build_function_mask(size, version) has length size*size minus the number of
\* functional cells, holds no coordinate twice and no functional coordinate:
\* it is a permutation of exactly the non-functional cells.
C2_PlacementIsPermutation ==
    pc = "placed" =>
        /\ Len(coords) = size * size - Cardinality(func_mask)
        /\ Cardinality(CoordSet) = Len(coords)
        /\ CoordSet \cap func_mask = {}
        /\ CoordSet = Cells(size) \ func_mask

\* A returned list for a version with alignment and version-info blocks.
C2_Witness ==
    /\ pc = "placed"
    /\ version = 7
    /\ Len(coords) > 0
    /\ <<0, size - 11>> \in func_mask
    /\ <<size - 1, size - 1>> \in CoordSet

(***************************************************************************)
(* C3                                                                      *)
(***************************************************************************)

\* Index of the column pair holding column c when the pairs are counted
\* (size-1,size-2), (size-3,size-4), ..., (8,7), (5,4), (3,2), (1,0).
ZigZagPair(n, c) ==
    IF c >= 7 THEN (n - 1 - c) \div 2 ELSE ((n - 7) \div 2) + ((5 - c) \div 2)

\* Whether c is the right column of its pair.
ZigZagRight(n, c) == IF c >= 7 THEN (n - 1 - c) % 2 = 0 ELSE (5 - c) % 2 = 0

\* Position of cell <<r, c>> in the zig-zag traversal: pairs right to left,
\* pair 0 bottom-to-top and the direction flipping after every pair, and at
\* each row the right column before the left one.
ZigZagRank(n, r, c) ==
    LET p == ZigZagPair(n, c)
        rowpos == IF p % 2 = 0 THEN n - 1 - r ELSE r
    IN  p * (2 * n) + 2 * rowpos + (IF ZigZagRight(n, c) THEN 0 ELSE 1)

ZigZagOrdered ==
    /\ \A i \in 1..Len(coords) : coords[i][2] # 6
    /\ \A i \in 1..(Len(coords) - 1) :
          ZigZagRank(size, coords[i][1], coords[i][2])
              < ZigZagRank(size, coords[i + 1][1], coords[i + 1][2])

\* C3: the returned list is in zig-zag order (column 6 in no pair, first pair
\* upward, direction flipping after every pair, right column before left);
\* and the loop terminates: every pass of the loop body lowers the column
\* counter, and the loop is left once it is <= 0.
C3_ZigZagOrder ==
    /\ [](pc = "placed" => ZigZagOrdered)
    /\ [][pc = "while" => (col' < col \/ (col <= 0 /\ pc' = "placed"))]_vars

\* The returned list crosses the timing column: a cell of column 7 is
\* followed by a cell of column 5.
C3_Witness ==
    /\ pc = "placed"
    /\ version = 2
    /\ \E i \in 1..(Len(coords) - 1) : coords[i][2] = 7 /\ coords[i + 1][2] = 5

(***************************************************************************)
(* C4                                                                      *)
(***************************************************************************)

\* dataBits = 8 * max(0, floor(N / 8) - E), N the number of non-functional
\* cells and E the ECC codeword total.
ExpectedDataBits ==
    LET N == size * size - Cardinality(func_mask)
        E == total_ecc_codewords(version, ecc)
        cw == (N \div 8) - E
    IN  8 * (IF cw > 0 THEN cw ELSE 0)

\* C4: in both renderers data_positions is exactly the first dataBits
\* coordinates of the placement sequence; it has exactly dataBits elements,
\* dataBits never exceeds N, and every coordinate at index >= dataBits
\* (0-based) is outside data_positions.
C4_DataPrefix ==
    pc = "split" =>
        /\ data_bits = ExpectedDataBits
        /\ data_bits <= size * size - Cardinality(func_mask)
        /\ data_positions = { coords[i] : i \in 1..data_bits }
        /\ Cardinality(data_positions) = data_bits
        /\ \A i \in (data_bits + 1)..Len(coords) : coords[i] \notin data_positions

\* A split with a non-empty data zone, a non-empty ECC zone and trailing
\* bits beyond the last full codeword.
C4_Witness ==
    /\ pc = "split"
    /\ renderer = "svg"
    /\ ecc = "Q"
    /\ ecc_cw_total > 0
    /\ data_bits > 0
    /\ data_bits + 8 * ecc_cw_total < Len(coords)

(***************************************************************************)
(* C5                                                                      *)
(***************************************************************************)

\* The lines of the square matrix: every row and every column.
MatrixLines(m) ==
    { <<"row", r>> : r \in 1..Len(m) } \cup { <<"col", c>> : c \in 1..Len(m) }

\* Cell k (1-based) of a line of the matrix.
LineCell(m, ln, k) == IF ln[1] = "row" THEN m[ln[2]][k] ELSE m[k][ln[2]]

\* The maximal runs <<s, e>> of identical consecutive cells of a line.
MaximalRuns(m, ln) ==
    { se \in (1..Len(m)) \X (1..Len(m)) :
        /\ se[1] <= se[2]
        /\ (se[1] = 1 \/ LineCell(m, ln, se[1] - 1) # LineCell(m, ln, se[1]))
        /\ (se[2] = Len(m) \/ LineCell(m, ln, se[2] + 1) # LineCell(m, ln, se[2]))
        /\ \A k \in se[1]..se[2] : LineCell(m, ln, k) = LineCell(m, ln, se[1]) }

RECURSIVE SumRunPenalty(_)
\* Sum of 3 + (L - 5) over the runs of length L >= 5 of a set of runs.
SumRunPenalty(S) ==
    IF S = {} THEN 0
    ELSE LET x == CHOOSE y \in S : TRUE
             L == x[2] - x[1] + 1
         IN  (IF L >= 5 THEN 3 + (L - 5) ELSE 0) + SumRunPenalty(S \ {x})

RECURSIVE SumOverLines(_, _)
SumOverLines(m, S) ==
    IF S = {} THEN 0
    ELSE LET ln == CHOOSE y \in S : TRUE
         IN  SumRunPenalty(MaximalRuns(m, ln)) + SumOverLines(m, S \ {ln})

\* C5: penalty_N1 is the sum, over every row and every column, over every
\* maximal run of identical cells of length L >= 5, of 3 + (L - 5); shorter
\* runs add nothing and a run reaching the end of the line counts once.
C5_N1IsRunSum ==
    pc = "scored" => n1_score = SumOverLines(matrix, MatrixLines(matrix))

\* A scored grid whose first row has a dark run of 4, then a light run, then a
\* dark run of exactly 5 that reaches the end of the row.
C5_Witness ==
    /\ pc = "scored"
    /\ matrix = LineGrid(LineLen, 0, (1..4) \cup ((LineLen - 4)..LineLen), 1, FALSE)
    /\ n1_score > 0

(***************************************************************************)
(* C6                                                                      *)
(***************************************************************************)

\* Number of dark cells of the 2x2 window with top-left cell (r, c), 1-based.
WindowDark(m, r, c) == m[r][c] + m[r][c + 1] + m[r + 1][c] + m[r + 1][c + 1]

UniformWindows(m) ==
    { rc \in (1..(Len(m) - 1)) \X (1..(Len(m) - 1)) :
          WindowDark(m, rc[1], rc[2]) \in {0, 4} }

IsUniform(m) == \A r \in 1..Len(m) : \A c \in 1..Len(m) : m[r][c] = m[1][1]

\* C6: penalty_N2 is 3 times the number of 2x2 windows with four equal cells,
\* overlapping windows each counted; a uniform n x n grid scores 3*(n-1)^2,
\* which is 1200 for the uniformly light 21 x 21 grid.
C6_N2IsWindowCount ==
    pc = "scored" =>
        /\ n2_score = 3 * Cardinality(UniformWindows(matrix))
        /\ IsUniform(matrix) => n2_score = 3 * (Len(matrix) - 1) * (Len(matrix) - 1)
        /\ matrix = UniformGrid(21, 0) => n2_score = 1200

\* The uniformly light 21 x 21 grid has been scored.
C6_Witness ==
    /\ pc = "scored"
    /\ matrix = UniformGrid(21, 0)
    /\ n2_score = 1200

(***************************************************************************)
(* C7                                                                      *)
(***************************************************************************)

\* Cells k+1 .. k+len (1-based) of a line are all light.
AllLight(m, ln, k, len) == \A j \in (k + 1)..(k + len) : LineCell(m, ln, j) = 0

\* An occurrence at 0-based index i of 1,0,1,1,1,0,1 in a line, with four
\* light cells inside the grid just before it or just after it.
FinderLikeAt(m, ln, i) ==
    /\ LineCell(m, ln, i + 1) = 1 /\ LineCell(m, ln, i + 2) = 0
    /\ LineCell(m, ln, i + 3) = 1 /\ LineCell(m, ln, i + 4) = 1
    /\ LineCell(m, ln, i + 5) = 1 /\ LineCell(m, ln, i + 6) = 0
    /\ LineCell(m, ln, i + 7) = 1
    /\ \/ (i >= 4 /\ AllLight(m, ln, i - 4, 4))
       \/ (i + 11 <= Len(m) /\ AllLight(m, ln, i + 7, 4))

FinderLikeOccurrences(m) ==
    { li \in MatrixLines(m) \X (0..(Len(m) - 7)) : FinderLikeAt(m, li[1], li[2]) }

DarkCount(m) == Cardinality({ rc \in (1..Len(m)) \X (1..Len(m)) : m[rc[1]][rc[2]] = 1 })

Abs(x) == IF x >= 0 THEN x ELSE -x

\* The matrix with every cell inverted.
Inverted(m) == [r \in 1..Len(m) |-> [c \in 1..Len(m) |-> 1 - m[r][c]]]

\* C8: penalty_N4 is 10 * floor(|20*d - 10*n*n| / (n*n)) for d dark cells of
\* an n x n grid; it is a multiple of 10 in 0..100, unchanged when every cell
\* is inverted, and 100 for the uniformly light 21 x 21 grid.
C8_N4IsRatioStep ==
    pc = "scored" =>
        LET n == Len(matrix)
            d == DarkCount(matrix)
        IN  /\ n4_score = 10 * (Abs(20 * d - 10 * n * n) \div (n * n))
            /\ n4_score \in { 10 * k : k \in 0..10 }
            /\ penalty_N4(BoolRows(Inverted(matrix))) = n4_score
            /\ matrix = UniformGrid(21, 0) => n4_score = 100

\* A scored grid with more dark than light cells and a non-zero penalty.
C8_Witness ==
    /\ pc = "scored"
    /\ 2 * DarkCount(matrix) > Len(matrix) * Len(matrix)
    /\ DarkCount(matrix) < Len(matrix) * Len(matrix)
    /\ n4_score > 0

(***************************************************************************)
(* C9                                                                      *)
(***************************************************************************)

AllScored == \A m \in DOMAIN symbols : symbols[m].ok

MinScore == CHOOSE x \in { scores[m] : m \in DOMAIN scores } :
                \A m \in DOMAIN scores : x <= scores[m]

\* C9: when all 8 candidates are scored, best_mask is the lowest mask id
\* among those whose score is the minimum of the 8 scores, best_score is that
\* minimum, and scores has exactly the keys 0..7, each holding the candidate's
\* N1 + N2 + N3 + N4.
C9_BestIsLowestMinimum ==
    (pc = "returned" /\ AllScored) =>
        /\ DOMAIN scores = 0..7
        /\ \A m \in 0..7 :
              LET rows == BoolRows(symbols[m].matrix)
              IN  scores[m] = penalty_N1(rows) + penalty_N2(rows)
                              + penalty_N3(rows) + penalty_N4(rows)
        /\ best_score = MinScore
        /\ scores[best_mask] = MinScore
        /\ \A m \in 0..7 : scores[m] = MinScore => best_mask <= m

\* All 8 candidates scored, the minimum first reached at mask 2 and tied
\* again at a later mask.
C9_Witness ==
    /\ pc = "returned"
    /\ AllScored
    /\ best_mask = 2
    /\ \E m \in 3..7 : scores[m] = best_score
    /\ scores[0] > best_score

(***************************************************************************)
(* C10                                                                     *)
(***************************************************************************)

\* Row and column coordinates of the centres of the alignment patterns,
\* ISO/IEC 18004 Annex E, for versions 1..40.
ISOAlignmentCenters ==
    << << >>, <<6, 18>>, <<6, 22>>, <<6, 26>>, <<6, 30>>, <<6, 34>>,
       <<6, 22, 38>>, <<6, 24, 42>>, <<6, 26, 46>>, <<6, 28, 50>>,
       <<6, 30, 54>>, <<6, 32, 58>>, <<6, 34, 62>>,
       <<6, 26, 46, 66>>, <<6, 26, 48, 70>>, <<6, 26, 50, 74>>,
       <<6, 30, 54, 78>>, <<6, 30, 56, 82>>, <<6, 30, 58, 86>>,
       <<6, 34, 62, 90>>,
       <<6, 28, 50, 72, 94>>, <<6, 26, 50, 74, 98>>, <<6, 30, 54, 78, 102>>,
       <<6, 28, 54, 80, 106>>, <<6, 32, 58, 84, 110>>, <<6, 30, 58, 86, 114>>,
       <<6, 34, 62, 90, 118>>,
       <<6, 26, 50, 74, 98, 122>>, <<6, 30, 54, 78, 102, 126>>,
       <<6, 26, 52, 78, 104, 130>>, <<6, 30, 56, 82, 108, 134>>,
       <<6, 34, 60, 86, 112, 138>>, <<6, 30, 58, 86, 114, 142>>,
       <<6, 34, 62, 90, 118, 146>>,
       <<6, 30, 54, 78, 102, 126, 150>>, <<6, 24, 50, 76, 102, 128, 154>>,
       <<6, 28, 54, 80, 106, 132, 158>>, <<6, 32, 58, 84, 110, 136, 162>>,
       <<6, 26, 54, 82, 110, 138, 166>>, <<6, 30, 58, 86, 114, 142, 170>> >>

\* C10: for every version 2..40, compute_alignment_centers(version) is the
\* row of centre coordinates the ISO/IEC 18004 table gives for that version.
C10_CentersMatchISO ==
    (pc \in {"format", "version", "built"} /\ version >= 2 /\ version <= 40) =>
        centers = ISOAlignmentCenters[version]

(***************************************************************************)
(* C11                                                                     *)
(***************************************************************************)

\* The alignment pass has run: centers holds compute_alignment_centers(version).
CentersComputed == pc \in {"format", "version", "built"}

\* C11: compute_alignment_centers(1) is empty; for every version 2..40 the
\* list has version div 7 + 2 elements, starts with 6, ends with
\* 21 + 4(version - 1) - 7 and is strictly increasing; for version 7 it is
\* <<6, 22, 38>>.
C11_CentersShape ==
    CentersComputed =>
        /\ version = 1 => centers = << >>
        /\ version >= 2 =>
              /\ Len(centers) = (version \div 7) + 2
              /\ centers[1] = 6
              /\ centers[Len(centers)] = 21 + 4 * (version - 1) - 7
              /\ \A i \in 1..(Len(centers) - 1) : centers[i] < centers[i + 1]
        /\ version = 7 => centers = <<6, 22, 38>>

\* The centres of a version with rounded intermediate centres are computed.
C11_Witness ==
    /\ pc = "format"
    /\ version = 15
    /\ Len(centers) = 4
    /\ centers[2] = 27

(***************************************************************************)
(* C12                                                                     *)
(***************************************************************************)

\* C12: compute_alignment_centers(32) is <<6, 34, 62, 90, 118, 146>>.
C12_CentersOfVersion32 ==
    (CentersComputed /\ version = 32) => centers = <<6, 34, 62, 90, 118, 146>>

(***************************************************************************)
(* C13                                                                     *)
(***************************************************************************)

\* The closed form of the number of functional cells: three finders, the
\* timing cells outside the finders, the non-skipped 5x5 blocks minus their
\* overlap with row 6 / column 6, the format cells not counted yet, and the
\* version-info cells.
ClosedFormCount(n, v, k) ==
    LET A == IF v = 1 THEN 0 ELSE 25 * (k * k - 3) - 10 * (k - 2)
        V == IF v >= 7 THEN 36 ELSE 0
    IN  147 + 2 * (n - 14) + A + 24 + V

\* The 5x5 block centred on <<cy, cx>>.
Block5(cy, cx) == { <<r, c>> : r \in (cy - 2)..(cy + 2), c \in (cx - 2)..(cx + 2) }

\* The centre pairs whose block the alignment pass marks.
MarkedCentres(n, cs) ==
    { p \in { <<cs[a], cs[b]>> : a \in DOMAIN cs, b \in DOMAIN cs } :
        ~( (p[1] <= 6 /\ p[2] <= 6) \/ (p[1] <= 6 /\ p[2] >= n - 7)
           \/ (p[1] >= n - 7 /\ p[2] <= 6) ) }

\* C13: the number of functional cells equals the closed form; no two
\* alignment blocks overlap, and no alignment block overlaps a finder, a
\* format cell or a version-info cell.
C13_FunctionalCount ==
    pc = "built" =>
        /\ Cardinality(func_mask) = ClosedFormCount(size, version, Len(centers))
        /\ \A p \in MarkedCentres(size, centers) : \A q \in MarkedCentres(size, centers) :
              p # q => Block5(p[1], p[2]) \cap Block5(q[1], q[2]) = {}
        /\ \A p \in MarkedCentres(size, centers) : \A rc \in Block5(p[1], p[2]) :
              /\ rc \in func_mask
              /\ ~InFinderBlock(size, rc[1], rc[2])
              /\ ~InFormatCells(size, rc[1], rc[2])
              /\ ~InVersionBlocks(size, version, rc[1], rc[2])

\* A mask with 13 alignment blocks and version information has been built.
C13_Witness ==
    /\ pc = "built"
    /\ version = 14
    /\ Cardinality(MarkedCentres(size, centers)) = 13
    /\ Cardinality(func_mask) = ClosedFormCount(73, 14, 4)

(***************************************************************************)
(* C14                                                                     *)
(***************************************************************************)

\* The cells of the two 6x3 blocks: rows 0..5 x columns size-11..size-9 and
\* rows size-11..size-9 x columns 0..5.
TwoVersionBlocks(n) ==
    { rc \in Cells(n) :
        \/ (rc[1] <= 5 /\ n - 11 <= rc[2] /\ rc[2] <= n - 9)
        \/ (n - 11 <= rc[1] /\ rc[1] <= n - 9 /\ rc[2] <= 5) }

\* C14: the version-info pass adds no cell for versions 1..6; for versions
\* 7..40 it adds exactly the 36 cells of the two 6x3 blocks, none of which
\* was functional before the pass.
C14_VersionInfoFromV7 ==
    [][pc = "version" =>
          LET added == func_mask' \ func_mask
          IN  /\ version <= 6 => added = {}
              /\ version >= 7 =>
                    /\ Cardinality(added) = 36
                    /\ added = TwoVersionBlocks(size)
                    /\ TwoVersionBlocks(size) \cap func_mask = {}]_vars

\* The version-info pass has run for version 7.
C14_Witness ==
    /\ pc = "built"
    /\ version = 7
    /\ <<5, size - 9>> \in func_mask
    /\ <<size - 9, 5>> \in func_mask

(***************************************************************************)
(* C15                                                                     *)
(***************************************************************************)

\* C15: no cell is True in both masks build_function_mask returns.
C15_SeparatorNotFunctional ==
    pc = "built" => func_mask \cap sep_mask = {}

(***************************************************************************)
(* C16                                                                     *)
(***************************************************************************)

\* C16: when (version, ecc) has no entry in the ECC table,
\* _total_ecc_codewords returns 0 and, in both renderers, every dark
\* non-functional module is classified data and no module is classified ecc,
\* the modules beyond the last full codeword included.
C16_MissingEntryAllData ==
    (pc = "painted" /\ ~InEccTable(version, ecc)) =>
        /\ ecc_cw_total = 0
        /\ (render_rows \ func_mask) \subseteq zone.data
        /\ zone.ecc = {}
        /\ \A i \in (8 * (Len(coords) \div 8) + 1)..Len(coords) :
              coords[i] \in render_rows => coords[i] \in zone.data

\* The PNG renderer has drawn an all-dark version 2 matrix for a level that
\* is not in the table; the last of the 7 modules beyond the last full
\* codeword is drawn as data.
C16_Witness ==
    /\ pc = "painted"
    /\ renderer = "png"
    /\ ecc = "X"
    /\ version = 2
    /\ render_rows = Cells(size)
    /\ Len(coords) % 8 = 7
    /\ coords[Len(coords)] \in zone.data

(***************************************************************************)
(* C17                                                                     *)
(***************************************************************************)

\* C17: when (version, ecc) is missing from the ECC table, the metrics
\* render_colored_png_from_matrix returns differ from the metrics it returns
\* for the same matrix and version with any level that is in the table.
C17_DegradedModeFlagged ==
    (pc = "painted" /\ renderer = "png" /\ ~InEccTable(version, ecc)) =>
        \A level \in EccLevels :
            InEccTable(version, level) =>
                metrics # PngMetrics(size, func_mask, render_rows,
                                     total_ecc_codewords(version, level))

(***************************************************************************)
(* C18                                                                     *)
(***************************************************************************)

\* C18: the Len(coords) mod 8 trailing coordinates of the placement sequence
\* are classified neither data nor ecc; when the table has an entry with
\* total E <= floor(N / 8) and every module is dark, exactly 8 * E modules
\* are classified ecc.
C18_TrailingBitsUnclassified ==
    pc = "painted" =>
        /\ \A i \in (8 * (Len(coords) \div 8) + 1)..Len(coords) :
              coords[i] \notin zone.data \cup zone.ecc
        /\ (/\ InEccTable(version, ecc)
            /\ ecc_cw_total <= Len(coords) \div 8
            /\ render_rows = Cells(size))
           => Cardinality(zone.ecc) = 8 * ecc_cw_total

(***************************************************************************)
(* C19                                                                     *)
(***************************************************************************)

\* ISO/IEC 18004, error-correction characteristics: the number of
\* error-correction codewords per block, by level, then by version 1..40.
ISOEccPerBlock ==
    [
     L |-> << 7, 10, 15, 20, 26, 18, 20, 24, 30, 18, 20, 24, 26, 30, 22, 24, 28, 30, 28, 28,
              28, 28, 30, 30, 26, 28, 30, 30, 30, 30, 30, 30, 30, 30, 30, 30, 30, 30, 30, 30 >>,
     M |-> << 10, 16, 26, 18, 24, 16, 18, 22, 22, 26, 30, 22, 22, 24, 24, 28, 28, 26, 26, 26,
              26, 28, 28, 28, 28, 28, 28, 28, 28, 28, 28, 28, 28, 28, 28, 28, 28, 28, 28, 28 >>,
     Q |-> << 13, 22, 18, 26, 18, 24, 18, 22, 20, 24, 28, 26, 24, 20, 30, 24, 28, 28, 26, 30,
              28, 30, 30, 30, 30, 28, 30, 30, 30, 30, 30, 30, 30, 30, 30, 30, 30, 30, 30, 30 >>,
     H |-> << 17, 28, 22, 16, 22, 28, 26, 26, 24, 28, 24, 28, 22, 24, 24, 30, 28, 28, 26, 28,
              30, 24, 30, 30, 30, 30, 30, 30, 30, 30, 30, 30, 30, 30, 30, 30, 30, 30, 30, 30 >>
    ]

\* ISO/IEC 18004: the number of error-correction blocks, by level, then by
\* version 1..40.
ISOEccBlocks ==
    [
     L |-> << 1, 1, 1, 1, 1, 2, 2, 2, 2, 4, 4, 4, 4, 4, 6, 6, 6, 6, 7, 8,
              8, 9, 9, 10, 12, 12, 12, 13, 14, 15, 16, 17, 18, 19, 19, 20, 21, 22, 24, 25 >>,
     M |-> << 1, 1, 1, 2, 2, 4, 4, 4, 5, 5, 5, 8, 9, 9, 10, 10, 11, 13, 14, 16,
              17, 17, 18, 20, 21, 23, 25, 26, 28, 29, 31, 33, 35, 37, 38, 40, 43, 45, 47, 49 >>,
     Q |-> << 1, 1, 2, 2, 4, 4, 6, 6, 8, 8, 8, 10, 12, 16, 12, 17, 16, 18, 21, 20,
              23, 23, 25, 27, 29, 34, 34, 35, 38, 40, 43, 45, 48, 51, 53, 56, 59, 62, 65, 68 >>,
     H |-> << 1, 1, 2, 4, 4, 4, 5, 6, 8, 8, 11, 11, 16, 16, 18, 16, 19, 21, 25, 25,
              25, 34, 30, 32, 35, 37, 40, 42, 45, 48, 51, 54, 57, 60, 63, 66, 70, 74, 77, 81 >>
    ]

\* The total number of error-correction codewords of the ISO table.
ISOEccTotal(v, level) == ISOEccPerBlock[level][v] * ISOEccBlocks[level][v]

\* C19: the ECC table has an entry for every version 1..40 and every level
\* L, M, Q, H, and for each of them _total_ecc_codewords equals the total of
\* the ISO/IEC 18004 table (7 for 1-L, 10 for 2-L).
C19_EccTotalsMatchISO ==
    (pc = "split" /\ ecc \in EccLevels) =>
        /\ InEccTable(version, ecc)
        /\ ecc_cw_total = ISOEccTotal(version, ecc)
        /\ (version = 1 /\ ecc = "L") => ecc_cw_total = 7
        /\ (version = 2 /\ ecc = "L") => ecc_cw_total = 10

(***************************************************************************)
(* C20                                                                     *)
(***************************************************************************)

\* C20: a candidate mask whose grid could not be produced has no score
\* stored under its mask id in the returned scores, and the sentinel 999999
\* is stored for no mask.
C20_FailedMaskExcluded ==
    pc = "returned" =>
        /\ \A m \in DOMAIN symbols : ~symbols[m].ok => m \notin DOMAIN scores
        /\ \A m \in DOMAIN scores : scores[m] # 999999

(***************************************************************************)
(* C21                                                                     *)
(***************************************************************************)

\* The masks whose try block completed.
ScoredMasks == { m \in DOMAIN symbols : symbols[m].ok }

\* C21: evaluate_all_masks returns for every subset of failing candidates
\* (while the loop runs, the next candidate may fail too and the loop still
\* goes on, or the function returns);
\* every candidate that did not fail is scored; best_mask is the lowest id
\* with the minimum score among the candidates that did not fail, and
\* best_score is that minimum; a failed candidate is never best_mask and its
\* placeholder is never best_score (both are None when all 8 failed).
C21_FailuresDoNotAbort ==
    /\ pc = "masks" => ENABLED (FailMask \/ ReturnBest)
    /\ pc = "returned" =>
          /\ DOMAIN symbols = 0..7
          /\ \A m \in ScoredMasks :
                scores[m] = compute_mask_penalty(symbols[m].matrix)
          /\ ScoredMasks = {} => (best_mask = None /\ best_score = None)
          /\ ScoredMasks # {} =>
                /\ best_mask \in ScoredMasks
                /\ best_score = scores[best_mask]
                /\ best_score # FailScore
                /\ \A m \in ScoredMasks :
                      /\ best_score <= scores[m]
                      /\ scores[m] = best_score => best_mask <= m

\* Masks 0, 3 and 7 failed, the others were scored and mask 1 is the best.
C21_Witness ==
    /\ pc = "returned"
    /\ ScoredMasks = {1, 2, 4, 5, 6}
    /\ scores[0] = FailScore
    /\ best_mask = 1
    /\ best_score < FailScore

(***************************************************************************)
(* C22                                                                     *)
(***************************************************************************)

\* C22: compute_alignment_centers produces no centres and
\* build_function_mask no masks when version is outside 1..40, and
\* build_function_mask marks nothing when size is not 21 + 4 * (version - 1).
C22_InvalidInputRejected ==
    /\ centers # << >> => version \in Versions
    /\ (func_mask # {} \/ sep_mask # {}) =>
          (version \in Versions /\ size = SizeOf(version))

(***************************************************************************)
(* C23                                                                     *)
(***************************************************************************)

\* Rule N1 over every cell of a grid of R rows of W cells: all W cells of
\* every row and all R cells of every one of the W columns.
FullN1(m) ==
    LET R == Len(m)
        W == Len(m[1])
        b == BoolRows(m)
    IN  SumSeq([r \in 1..R |-> N1Scan(b[r], 2, 1, 0)], R)
        + SumSeq([c \in 1..W |-> N1Scan([r \in 1..R |-> b[r][c]], 2, 1, 0)], W)

\* C23: a grid whose rows have more cells than there are rows is not
\* truncated by compute_mask_penalty: every cell contributes to the score,
\* so rule N1 counts the runs of the whole rows (a single row of five dark
\* cells then one light cell scores 3).
C23_WideGridNotTruncated ==
    pc = "scored" => n1_score = FullN1(matrix)

(***************************************************************************)
(* app.py: the routes / and /export/svg and the module-level logo          *)
(***************************************************************************)

Clients == {"c1", "c2"}

\* The requests the server accepts in one run.
MaxRequests == 3

\* The text parameter: missing, or a text make_qr encodes.
Texts == {"", "a"}

\* Images a client can upload.
Logos == {"logoA", "logoB"}

\* The file part `logo` of a POST /: absent, an image, or a file Image.open
\* cannot read.
Uploads == Logos \cup {NoneStr, "corrupt"}

NoRequest ==
    [route |-> NoneStr, pc |-> "idle", text |-> "", logo_image |-> NoneStr,
     response |-> NoneStr]

\* _svg_from_matrix_rects(matrix, logo_image) for the matrix of text m.  The
\* collision mask comes from img_logo (the triangle when logo_image is None);
\* the <image> element is built from logo_image itself, and
\* None.convert raises AttributeError.
svg_from_matrix_rects(m, logo_image) ==
    LET img_logo == IF logo_image = NoneStr THEN "triangle" ELSE logo_image
        rects == <<m, img_logo>>
    IN  IF logo_image = NoneStr
        THEN [ok |-> FALSE, rects |-> << >>, image |-> NoneStr]
        ELSE [ok |-> TRUE, rects |-> rects, image |-> logo_image]

InitApp ==
    /\ pc = "serving"
    /\ current_logo_image = NoneStr
    /\ requests = [c \in Clients |-> NoRequest]
    /\ served = 0
    /\ exports = {}
    /\ matrix = << >>
    /\ IdleScores /\ IdleMask /\ IdlePlace /\ IdleSplit /\ IdleEval

\* POST /: index() up to the end of the upload block.
PostIndex(c) ==
    /\ pc = "serving"
    /\ requests[c].pc = "idle"
    /\ served < MaxRequests
    /\ served' = served + 1
    /\ \E t \in Texts, f \in Uploads :
          LET img == IF f \in Logos THEN f ELSE NoneStr
          IN  /\ requests' = [requests EXCEPT ![c] =
                     [route |-> "index", pc |-> "generate", text |-> t,
                      logo_image |-> img, response |-> NoneStr]]
              /\ current_logo_image' =
                     IF f = NoneStr THEN current_logo_image ELSE img
    /\ UNCHANGED <<pc, exports, maskVars, placeVars, splitVars, penVars, evalVars>>

\* POST /: the rest of index(), from `if not text` to render_template.
IndexRespond(c) ==
    /\ pc = "serving"
    /\ requests[c].route = "index"
    /\ requests[c].pc = "generate"
    /\ LET q == requests[c]
           view == IF q.text = "" THEN "error"
                   ELSE IF q.logo_image # NoneStr
                        THEN IF svg_from_matrix_rects(q.text, q.logo_image).ok
                             THEN "svg" ELSE "raise"
                        ELSE "png"
       IN  requests' = [requests EXCEPT ![c] =
               [NoRequest EXCEPT !.response = view]]
    /\ UNCHANGED <<pc, current_logo_image, served, exports, maskVars, placeVars,
                   splitVars, penVars, evalVars>>

\* GET /export/svg: export_svg_separate() up to make_qr; without text the
\* handler returns 400 at once.
GetExportSvg(c) ==
    /\ pc = "serving"
    /\ requests[c].pc = "idle"
    /\ served < MaxRequests
    /\ served' = served + 1
    /\ \E t \in Texts :
          IF t = ""
          THEN /\ requests' = [requests EXCEPT ![c] =
                      [NoRequest EXCEPT !.response = "400"]]
               /\ exports' = exports \cup
                      { [text |-> t, called |-> FALSE, logo_image |-> NoneStr,
                         status |-> 400, rects |-> << >>, image |-> NoneStr] }
          ELSE /\ requests' = [requests EXCEPT ![c] =
                      [route |-> "export_svg", pc |-> "render", text |-> t,
                       logo_image |-> NoneStr, response |-> NoneStr]]
               /\ exports' = exports
    /\ UNCHANGED <<pc, current_logo_image, maskVars, placeVars, splitVars, penVars,
                   evalVars>>

\* GET /export/svg: the call of _svg_from_matrix_rects with the module-level
\* logo and send_file; an exception of the call is a 500 response.
ExportRespond(c) ==
    /\ pc = "serving"
    /\ requests[c].route = "export_svg"
    /\ requests[c].pc = "render"
    /\ LET q == requests[c]
           svg == svg_from_matrix_rects(q.text, current_logo_image)
       IN  /\ exports' = exports \cup
                  { [text |-> q.text, called |-> TRUE,
                     logo_image |-> current_logo_image,
                     status |-> IF svg.ok THEN 200 ELSE 500,
                     rects |-> svg.rects, image |-> svg.image] }
           /\ requests' = [requests EXCEPT ![c] =
                  [NoRequest EXCEPT !.response = IF svg.ok THEN "200" ELSE "500"]]
    /\ UNCHANGED <<pc, current_logo_image, served, maskVars, placeVars, splitVars,
                   penVars, evalVars>>

NextApp ==
    \E c \in Clients :
        PostIndex(c) \/ IndexRespond(c) \/ GetExportSvg(c) \/ ExportRespond(c)

SpecApp == InitApp /\ [][NextApp]_vars

(***************************************************************************)
(* C24                                                                     *)
(***************************************************************************)

\* C24: the response of GET /export/svg is a function of that request's
\* parameters: two exports of the same text have the same status and body,
\* whatever was uploaded by earlier requests.
C24_ExportDependsOnRequestOnly ==
    \A e1 \in exports, e2 \in exports :
        e1.text = e2.text =>
            /\ e1.status = e2.status
            /\ e1.rects = e2.rects
            /\ e1.image = e2.image

(***************************************************************************)
(* C30                                                                     *)
(***************************************************************************)

\* C30: when _svg_from_matrix_rects is called with logo_image None (a GET
\* /export/svg before any upload, or after a failed upload reset the logo),
\* it uses the built-in triangle and the route answers with a complete SVG.
C30_NoLogoUsesTriangle ==
    \A e \in exports :
        (e.called /\ e.logo_image = NoneStr) =>
            (e.status = 200 /\ e.rects = <<e.text, "triangle">>)

(***************************************************************************)
(* C25                                                                     *)
(***************************************************************************)

\* C25: in the PNG renderer every dark functional module has the zone of the
\* region that made it functional, the finders first: it is tagged alignment
\* exactly when it lies in a 5x5 block that build_function_mask marked (and
\* not in a finder), the other functional modules are tagged timing, format
\* or version, and no functional module is tagged data or ecc.
C25_PngZoneIsRegion ==
    (pc = "painted" /\ renderer = "png") =>
        LET F == render_rows \cap func_mask
            A == AlignmentCells(size, compute_alignment_centers(version))
        IN  /\ zone.finder = F \cap FinderCells(size)
            /\ zone.alignment = (F \cap A) \ FinderCells(size)
            /\ zone.timing \cup zone.format \cup zone.version
                  = F \ (FinderCells(size) \cup A)
            /\ (zone.data \cup zone.ecc) \cap func_mask = {}

(***************************************************************************)
(* C26                                                                     *)
(***************************************************************************)

\* C26: the PNG and the SVG renderer give every module they draw the same
\* zone, for every version, ECC level and grid: the zones one renderer
\* produced are the zones the other produces from the same arguments (no
\* functional module reaches the fallbacks in which the two differ).
C26_PngAndSvgAgree ==
    pc = "painted" =>
        LET cs == compute_alignment_centers(version)
        IN  zone = IF renderer = "png" THEN SvgZones(cs, render_rows)
                   ELSE PngZones(cs, render_rows)

\* An SVG of a version-40 symbol with version-information, data and ECC
\* modules drawn.
C26_Witness ==
    /\ pc = "painted"
    /\ renderer = "svg"
    /\ version = MaxVersion
    /\ zone.version # {}
    /\ zone.data # {}
    /\ zone.ecc # {}

(***************************************************************************)
(* C27                                                                     *)
(***************************************************************************)

\* C27: for every version and level the table has, the ECC total is
\* strictly less than floor(N / 8), N the number of non-functional modules:
\* max(0, ...) never clamps and the data zone is never empty.
C27_ClampNeverActive ==
    (pc = "split" /\ InEccTable(version, ecc)) =>
        /\ ecc_cw_total < (size * size - Cardinality(func_mask)) \div 8
        /\ data_bits > 0
        /\ data_positions # {}

(***************************************************************************)
(* C28                                                                     *)
(***************************************************************************)

\* C28: no cell of the separator mask is in the placement sequence, and no
\* module of a separator ring is drawn as data or ecc, dark or light.
C28_SeparatorNotPlaced ==
    /\ pc \in {"placed", "split", "painted"} =>
          \A i \in DOMAIN coords : coords[i] \notin sep_mask
    /\ pc = "painted" => (zone.data \cup zone.ecc) \cap sep_mask = {}

(***************************************************************************)
(* qr_analizer_web_flask.py: its own copy of build_function_mask           *)
(***************************************************************************)

\* for i in range(8, size-8): func[6][i] = True; func[i][6] = True
flask_TimingCells(n) ==
    { <<6, i>> : i \in Range(8, n - 8) } \cup { <<i, 6>> : i \in Range(8, n - 8) }

\* The version blocks, each cell under the test 0 <= r < size and
\* 0 <= c < size.
flask_VersionCells(n, v) ==
    IF v >= 7
    THEN ({ <<r, c>> : r \in Range(0, 6), c \in Range(n - 11, n - 8) }
          \cup { <<r, c>> : r \in Range(n - 11, n - 8), c \in Range(0, 6) })
         \cap Cells(n)
    ELSE {}

\* The finder, alignment and format passes and compute_alignment_centers of
\* the copy are statement for statement those of core/functional_areas.py.
flask_build_function_mask(n, v) ==
    [func |-> FinderCells(n) \cup flask_TimingCells(n)
                \cup AlignmentCells(n, compute_alignment_centers(v))
                \cup FormatCells(n) \cup flask_VersionCells(n, v),
     sep |-> SeparatorCells(n)]

(***************************************************************************)
(* C29                                                                     *)
(***************************************************************************)

\* C29: every copy of build_function_mask returns the functional mask and
\* the separator mask that core/functional_areas.py returns, for every
\* version 1..40 with size = 21 + 4 * (version - 1).
C29_CopiesAgree ==
    pc = "built" =>
        /\ func_mask = flask_build_function_mask(size, version).func
        /\ sep_mask = flask_build_function_mask(size, version).sep

====
